---- MODULE Spec2Model ----
(***************************************************************************)
(* halo2_circuits: the mux gadget (mux/src/gadget/mux/chip.rs with the     *)
(* helpers of mux/src/utils.rs), the top-level mux example                 *)
(* (mux/src/main.rs) and the subtract example (subtract/src/main.rs).      *)
(*                                                                         *)
(* A behaviour is one MockProver run of one circuit: synthesis, region by  *)
(* region, then verification of the trace against the public inputs.       *)
(* Between synthesis and verification a dishonest prover may overwrite     *)
(* advice cells, which is what the gates and copy constraints guard        *)
(* against.                                                                *)
(***************************************************************************)
EXTENDS Integers, FiniteSets, Sequences, TLC

VARIABLES
    prog,       \* which circuit runs: "gadget", "muxmain" or "subtract"
    pass,       \* "witness": value closures are evaluated; "shape": they are not
    circuit,    \* MyCircuit { a, b, c }: the private inputs, each an Option<F>
    instance,   \* the public input vector, of length 1: its element at row 0
    trace,      \* the constraint-system trace: cells, copies, selectors
    columns,    \* the layouter's first free row of each column
    num,        \* the handles a, b, c, d of synthesize
    absent,     \* the handles mux's caller builds with no value (value: None)
    opRow,      \* the absolute row the gadget's region starts at
    pc,         \* the position in synthesize / main
    result,     \* the result of synthesize
    tampered,   \* the number of cells overwritten after synthesis
    verdict     \* the result of MockProver::verify

vars == <<prog, pass, circuit, instance, trace, columns, num, absent, opRow,
          pc, result, tampered, verdict>>

-----------------------------------------------------------------------------
(* The field.  pasta::Fp is a prime field; the model keeps the field laws   *)
(* and a small prime order.                                                 *)

P == 5

F == 0 .. (P - 1)

Fadd(x, y) == (x + y) % P

Fsub(x, y) == (x + (P - y)) % P

Fmul(x, y) == (x * y) % P

(* Option<F> *)
None == << >>

Some(v) == << v >>

OptF == {None} \cup {Some(v) : v \in F}

-----------------------------------------------------------------------------
(* Bounds *)

MaxTamper == 1

-----------------------------------------------------------------------------
(* Columns, rows and cells *)

K == 4

NumRows == 2 ^ K

Rows == 0 .. (NumRows - 1)

AdviceCols == {"advice0", "advice1", "advice2"}

advice(i) == CASE i = 0 -> "advice0" [] i = 1 -> "advice1" [] i = 2 -> "advice2"

SelectorCols == {"s_bool", "s_mux", "s_subtract"}

Cell(col, row) == [col |-> col, row |-> row]

NoCell == [col |-> "none", row |-> 0]

Number(cell, value) == [cell |-> cell, value |-> value]

NoNumber == Number(NoCell, None)

EmptyTrace ==
    [ advice    |-> [cell \in {} |-> 0],
      assigned  |-> {},
      copies    |-> {},
      selectors |-> {},
      public    |-> {},
      err       |-> "none" ]

-----------------------------------------------------------------------------
(* The engine's assignment API, as the chips use it.  Each call returns the *)
(* trace it leaves; a call on a trace that already failed does nothing,     *)
(* which is Rust's `?` returning from the region closure.                   *)

(* region.assign_advice(_, column, offset, to): in a witness pass the value *)
(* closure `to` is evaluated and its error propagates; in a shape pass the  *)
(* closure is never called and the cell gets no value.                      *)
assign_advice(t, col, row, to) ==
    IF t.err # "none" THEN t
    ELSE IF pass = "shape" THEN [t EXCEPT !.assigned = @ \cup {Cell(col, row)}]
    ELSE IF to = None THEN [t EXCEPT !.err = "SynthesisError"]
    ELSE [t EXCEPT !.advice = (Cell(col, row) :> to[1]) @@ @,
                   !.assigned = @ \cup {Cell(col, row)}]

(* mutant: the copy constraint is never recorded *)
constrain_equal_dropped(t, left, right) == t

(* region.constrain_equal(left, right) *)
constrain_equal(t, left, right) ==
    IF t.err # "none" THEN t
    ELSE [t EXCEPT !.copies = @ \cup {<<left, right>>}]

(* selector.enable(region, offset) *)
enable(t, sel, row) ==
    IF t.err # "none" THEN t
    ELSE [t EXCEPT !.selectors = @ \cup {<<sel, row>>}]

(* value.ok_or(Error::SynthesisError)? evaluated in the region closure      *)
(* itself, outside any value closure: it fails in every pass.               *)
ok_or(t, value) ==
    IF t.err # "none" THEN t
    ELSE IF value = None THEN [t EXCEPT !.err = "SynthesisError"]
    ELSE t

(* mutant: the cell is never tied to the instance column *)
constrain_instance_dropped(t, cell, row) == t

(* layouter.constrain_instance(cell, column, row) *)
constrain_instance(t, cell, row) ==
    IF t.err # "none" THEN t
    ELSE [t EXCEPT !.public = @ \cup {<<cell, row>>}]

(* SimpleFloorPlanner: a region starts at the first row that is free in     *)
(* every column the region uses.                                            *)
MaxOf(S) == CHOOSE m \in S : \A x \in S : x <= m

region_start(used) == MaxOf({columns[c] : c \in used})

columns_after(used, start, rows) ==
    [c \in DOMAIN columns |-> IF c \in used THEN start + rows ELSE columns[c]]

-----------------------------------------------------------------------------
(* load_private: a one-row region in the first advice column.               *)

load_private_region(t, start, value) ==
    LET t1 == assign_advice(t, advice(0), start, value)
    IN  [trace |-> t1, out |-> Number(Cell(advice(0), start), value)]

-----------------------------------------------------------------------------
(* MuxChip::mux of gadget/mux/chip.rs *)

(* mutant: the two branches of the case split exchanged *)
mux_value_swapped(a, b, selector) ==
    IF selector.value = Some(0) THEN b.value ELSE a.value

(* the output value: `a` if selector == 0 else `b`, an exact case split *)
mux_value(a, b, selector) ==
    IF selector.value = Some(0) THEN a.value ELSE b.value

(* mutant: an absent value is replaced by zero (unwrap_or_default) *)
mux_region_default(t, start, a, b, selector) ==
    LET or_zero(o)    == IF o = None THEN Some(0) ELSE o
        a_cell        == Cell(advice(0), start)
        b_cell        == Cell(advice(1), start)
        selector_cell == Cell(advice(2), start)
        mux_cell      == Cell(advice(0), start + 1)
        t1 == assign_advice(t, advice(0), start, or_zero(a.value))
        t2 == assign_advice(t1, advice(1), start, or_zero(b.value))
        t3 == assign_advice(t2, advice(2), start, or_zero(selector.value))
        t4 == constrain_equal(t3, a.cell, a_cell)
        t5 == constrain_equal(t4, b.cell, b_cell)
        t6 == constrain_equal(t5, selector.cell, selector_cell)
        t7 == enable(t6, "s_bool", start)
        t8 == enable(t7, "s_mux", start)
        v  == IF selector.value = Some(0) THEN or_zero(a.value)
                                          ELSE or_zero(b.value)
        t10 == assign_advice(t8, advice(0), start + 1, v)
    IN  [trace |-> t10, out |-> Number(mux_cell, v)]

(* mutant: a selector that is neither 0 nor 1 is refused in the region *)
mux_region_refuses_nonboolean(t, start, a, b, selector) ==
    LET a_cell        == Cell(advice(0), start)
        b_cell        == Cell(advice(1), start)
        selector_cell == Cell(advice(2), start)
        mux_cell      == Cell(advice(0), start + 1)
        t1 == assign_advice(t, advice(0), start, a.value)
        t2 == assign_advice(t1, advice(1), start, b.value)
        t3 == assign_advice(t2, advice(2), start, selector.value)
        t4 == constrain_equal(t3, a.cell, a_cell)
        t5 == constrain_equal(t4, b.cell, b_cell)
        t6 == constrain_equal(t5, selector.cell, selector_cell)
        t7 == enable(t6, "s_bool", start)
        t8 == enable(t7, "s_mux", start)
        v  == IF selector.value = Some(0) THEN a.value
              ELSE IF selector.value = Some(1) THEN b.value ELSE None
        t9 == ok_or(t8, v)
        t10 == assign_advice(t9, advice(0), start + 1, v)
    IN  [trace |-> t10, out |-> Number(mux_cell, v)]

(* mutant: s_mux is enabled after `row_offset += 1`, at relative row 1 *)
mux_region_late_selector(t, start, a, b, selector) ==
    LET a_cell        == Cell(advice(0), start)
        b_cell        == Cell(advice(1), start)
        selector_cell == Cell(advice(2), start)
        mux_cell      == Cell(advice(0), start + 1)
        t1 == assign_advice(t, advice(0), start, a.value)
        t2 == assign_advice(t1, advice(1), start, b.value)
        t3 == assign_advice(t2, advice(2), start, selector.value)
        t4 == constrain_equal(t3, a.cell, a_cell)
        t5 == constrain_equal(t4, b.cell, b_cell)
        t6 == constrain_equal(t5, selector.cell, selector_cell)
        t7 == enable(t6, "s_bool", start)
        t8 == enable(t7, "s_mux", start + 1)
        v  == IF selector.value = Some(0) THEN a.value ELSE b.value
        t9 == ok_or(t8, v)
        t10 == assign_advice(t9, advice(0), start + 1, v)
    IN  [trace |-> t10, out |-> Number(mux_cell, v)]

(* mutant: s_bool is never enabled in the region *)
mux_region_bool_disabled(t, start, a, b, selector) ==
    LET a_cell        == Cell(advice(0), start)
        b_cell        == Cell(advice(1), start)
        selector_cell == Cell(advice(2), start)
        mux_cell      == Cell(advice(0), start + 1)
        t1 == assign_advice(t, advice(0), start, a.value)
        t2 == assign_advice(t1, advice(1), start, b.value)
        t3 == assign_advice(t2, advice(2), start, selector.value)
        t4 == constrain_equal(t3, a.cell, a_cell)
        t5 == constrain_equal(t4, b.cell, b_cell)
        t6 == constrain_equal(t5, selector.cell, selector_cell)
        t8 == enable(t6, "s_mux", start)
        v  == IF selector.value = Some(0) THEN a.value ELSE b.value
        t9 == ok_or(t8, v)
        t10 == assign_advice(t9, advice(0), start + 1, v)
    IN  [trace |-> t10, out |-> Number(mux_cell, v)]

(* mutant: the returned handle names a's copy, not the output cell *)
mux_region_wrong_cell(t, start, a, b, selector) ==
    LET a_cell        == Cell(advice(0), start)
        b_cell        == Cell(advice(1), start)
        selector_cell == Cell(advice(2), start)
        t1 == assign_advice(t, advice(0), start, a.value)
        t2 == assign_advice(t1, advice(1), start, b.value)
        t3 == assign_advice(t2, advice(2), start, selector.value)
        t4 == constrain_equal(t3, a.cell, a_cell)
        t5 == constrain_equal(t4, b.cell, b_cell)
        t6 == constrain_equal(t5, selector.cell, selector_cell)
        t7 == enable(t6, "s_bool", start)
        t8 == enable(t7, "s_mux", start)
        v  == IF selector.value = Some(0) THEN a.value ELSE b.value
        t9 == ok_or(t8, v)
        t10 == assign_advice(t9, advice(0), start + 1, v)
    IN  [trace |-> t10, out |-> Number(a_cell, v)]

mux_region(t, start, a, b, selector) ==
    LET a_cell        == Cell(advice(0), start)
        b_cell        == Cell(advice(1), start)
        selector_cell == Cell(advice(2), start)
        mux_cell      == Cell(advice(0), start + 1)
        t1 == assign_advice(t, advice(0), start, a.value)
        t2 == assign_advice(t1, advice(1), start, b.value)
        t3 == assign_advice(t2, advice(2), start, selector.value)
        t4 == constrain_equal(t3, a.cell, a_cell)
        t5 == constrain_equal(t4, b.cell, b_cell)
        t6 == constrain_equal(t5, selector.cell, selector_cell)
        t7 == enable(t6, "s_bool", start)
        t8 == enable(t7, "s_mux", start)
        v  == mux_value(a, b, selector)
        t9 == ok_or(t8, v)
        t10 == assign_advice(t9, advice(0), start + 1, v)
    IN  [trace |-> t10, out |-> Number(mux_cell, v)]

-----------------------------------------------------------------------------
(* MuxChip::do_mux of mux/src/main.rs *)

(* a.value.and_then(|a| b.value.map(|b| (b - a))) *)
do_mux_value(a, b, c) ==
    IF a.value = None \/ b.value = None THEN None
    ELSE Some(Fsub(b.value[1], a.value[1]))

do_mux_region(t, start, a, b, c) ==
    LET lhs == Cell(advice(0), start)
        rhs == Cell(advice(1), start)
        xhs == Cell(advice(2), start)
        cell == Cell(advice(0), start + 1)
        t1 == enable(t, "s_mux", start)
        t2 == assign_advice(t1, advice(0), start, a.value)
        t3 == assign_advice(t2, advice(1), start, b.value)
        t4 == assign_advice(t3, advice(2), start, b.value)
        t5 == constrain_equal(t4, a.cell, lhs)
        t6 == constrain_equal(t5, b.cell, rhs)
        t7 == constrain_equal(t6, c.cell, xhs)
        value == do_mux_value(a, b, c)
        t8 == assign_advice(t7, advice(0), start + 1, value)
    IN  [trace |-> t8, out |-> Number(cell, value)]

-----------------------------------------------------------------------------
(* SubtractChip::do_subtract of subtract/src/main.rs *)

(* mutant: the operands of the subtraction exchanged *)
do_subtract_value_reversed(a, b) ==
    IF a.value = None \/ b.value = None THEN None
    ELSE Some(Fsub(b.value[1], a.value[1]))

(* a.value.and_then(|a| b.value.map(|b| a - b)) *)
do_subtract_value(a, b) ==
    IF a.value = None \/ b.value = None THEN None
    ELSE Some(Fsub(a.value[1], b.value[1]))

do_subtract_region(t, start, a, b) ==
    LET lhs == Cell(advice(0), start)
        rhs == Cell(advice(1), start)
        cell == Cell(advice(0), start + 1)
        t1 == enable(t, "s_subtract", start)
        t2 == assign_advice(t1, advice(0), start, a.value)
        t3 == assign_advice(t2, advice(1), start, b.value)
        t4 == constrain_equal(t3, a.cell, lhs)
        t5 == constrain_equal(t4, b.cell, rhs)
        value == do_subtract_value(a, b)
        t6 == assign_advice(t5, advice(0), start + 1, value)
    IN  [trace |-> t6, out |-> Number(cell, value)]

-----------------------------------------------------------------------------
(* The gates, as configure declares them: each is the value of its          *)
(* polynomial at row r, the selector's value times the identity.            *)

(* the value a cell holds: MockProver starts every advice cell at zero *)
CellVal(t, cell) == IF cell \in DOMAIN t.advice THEN t.advice[cell] ELSE 0

(* meta.query_advice(advice[i], Rotation::cur()) at row r *)
cur(t, i, r) == CellVal(t, Cell(advice(i), r))

(* meta.query_advice(advice[i], Rotation::next()): wraps around the last row *)
next(t, i, r) == CellVal(t, Cell(advice(i), (r + 1) % NumRows))

query_selector(t, sel, r) == IF <<sel, r>> \in t.selectors THEN 1 ELSE 0

(* mutant: the bool gate queries advice[0], a's column *)
gate_bool_wrong_column(t, r) ==
    LET selector == CellVal(t, Cell(advice(0), r))
        s_bool   == IF <<"s_bool", r>> \in t.selectors THEN 1 ELSE 0
    IN  Fmul(Fmul(s_bool, selector), Fsub(1, selector))

(* gadget/mux/chip.rs "bool": s_bool * selector * (1 - selector) *)
gate_bool(t, r) ==
    LET selector == cur(t, 2, r)
        s_bool   == query_selector(t, "s_bool", r)
    IN  Fmul(Fmul(s_bool, selector), Fsub(1, selector))

(* mutant: the gate of mux/src/main.rs, without the `+ a` term *)
gate_mux_no_offset(t, r) ==
    LET a        == cur(t, 0, r)
        b        == cur(t, 1, r)
        selector == cur(t, 2, r)
        out      == next(t, 0, r)
        s_mux    == query_selector(t, "s_mux", r)
    IN  Fmul(s_mux, Fsub(out, Fmul(Fsub(b, a), selector)))

(* gadget/mux/chip.rs "mux": s_mux * (out - ((b - a) * selector + a)) *)
gate_mux(t, r) ==
    LET a        == cur(t, 0, r)
        b        == cur(t, 1, r)
        selector == cur(t, 2, r)
        out      == next(t, 0, r)
        s_mux    == query_selector(t, "s_mux", r)
    IN  Fmul(s_mux, Fsub(out, Fadd(Fmul(Fsub(b, a), selector), a)))

(* mux/src/main.rs "mux": s_mux * ((rhs - lhs) * xhs - out) *)
gate_main_mux(t, r) ==
    LET lhs   == cur(t, 0, r)
        rhs   == cur(t, 1, r)
        xhs   == cur(t, 2, r)
        out   == next(t, 0, r)
        s_mux == query_selector(t, "s_mux", r)
    IN  Fmul(s_mux, Fsub(Fmul(Fsub(rhs, lhs), xhs), out))

(* mutant: the gate left as the addition gate it was copied from *)
gate_subtract_as_add(t, r) ==
    LET lhs        == cur(t, 0, r)
        rhs        == cur(t, 1, r)
        out        == next(t, 0, r)
        s_subtract == query_selector(t, "s_subtract", r)
    IN  Fmul(s_subtract, Fsub(Fadd(lhs, rhs), out))

(* subtract/src/main.rs "subtract": s_subtract * (lhs - rhs - out) *)
gate_subtract(t, r) ==
    LET lhs        == cur(t, 0, r)
        rhs        == cur(t, 1, r)
        out        == next(t, 0, r)
        s_subtract == query_selector(t, "s_subtract", r)
    IN  Fmul(s_subtract, Fsub(Fsub(lhs, rhs), out))

(* the gates of the circuit that runs, all zero at row r *)
gates_hold(t, r) ==
    CASE prog = "gadget"   -> gate_bool(t, r) = 0 /\ gate_mux(t, r) = 0
      [] prog = "muxmain"  -> gate_main_mux(t, r) = 0
      [] prog = "subtract" -> gate_subtract(t, r) = 0

(* the permutation argument: copy-constrained cells hold one value, and a   *)
(* cell constrained to the instance column holds the public input there     *)
copies_hold(t) ==
    \A pair \in t.copies : CellVal(t, pair[1]) = CellVal(t, pair[2])

public_holds(t, inst) ==
    \A pair \in t.public : CellVal(t, pair[1]) = inst[pair[2] + 1]

(* MockProver::verify *)
verify(t, inst) ==
    IF /\ \A r \in Rows : gates_hold(t, r)
       /\ copies_hold(t)
       /\ public_holds(t, inst)
    THEN "accept" ELSE "reject"

-----------------------------------------------------------------------------
(* One run *)

(* "muxmain" and "subtract" are the circuits of the two main.rs files;      *)
(* "gadget" is the same synthesize (load a, b, selector; mux; expose at      *)
(* public row 0) over MuxChip::mux of gadget/mux/chip.rs and the            *)
(* load_private / constrain_public of utils.rs.                             *)
Progs == {"gadget", "muxmain", "subtract"}

AllColumns == AdviceCols \cup SelectorCols

(* MyCircuit: the subtract circuit has no field c; without_witnesses gives  *)
(* the shape pass a circuit whose values are all None                       *)
Circuits(pr, ps) ==
    IF ps = "shape" THEN {[a |-> None, b |-> None, c |-> None]}
    ELSE [a : OptF, b : OptF, c : IF pr = "subtract" THEN {None} ELSE OptF]

Init ==
    /\ prog \in Progs
    /\ pass \in {"witness", "shape"}
    /\ circuit \in Circuits(prog, pass)
    /\ instance \in IF pass = "shape" THEN {<<0>>} ELSE {<<d>> : d \in F}
    /\ trace = EmptyTrace
    /\ columns = [c \in AllColumns |-> 0]
    /\ num = [h \in {"a", "b", "c", "d"} |-> NoNumber]
    /\ absent \in IF prog = "gadget" /\ pass = "witness"
                  THEN SUBSET {"a", "b", "c"} ELSE {{}}
    /\ opRow = 0
    /\ pc = "load_a"
    /\ result = "none"
    /\ tampered = 0
    /\ verdict = "none"

(* mutant: the region's error is swallowed and synthesize goes on *)
after_region_swallow(r, h, used, start, rows, then) ==
    /\ trace' = r.trace
    /\ num' = IF r.trace.err = "none" THEN [num EXCEPT ![h] = r.out] ELSE num
    /\ columns' = columns_after(used, start, rows)
    /\ pc' = then
    /\ result' = result

(* a region closure returned: Ok moves synthesize on, an error is returned  *)
(* by synthesize unchanged (`?`), and MockProver::run(..).unwrap() ends     *)
after_region(r, h, used, start, rows, then) ==
    /\ trace' = r.trace
    /\ IF r.trace.err = "none"
       THEN /\ num' = [num EXCEPT ![h] = r.out]
            /\ columns' = columns_after(used, start, rows)
            /\ pc' = then
            /\ result' = result
       ELSE /\ num' = num
            /\ columns' = columns
            /\ pc' = "done"
            /\ result' = r.trace.err

(* CellValue's fields are public: the caller of the gadget's mux may hand   *)
(* it a handle to a loaded cell whose value field is None.  The Number of   *)
(* the two main.rs files is built by load_private alone.                    *)
handle_given(h, n) == IF h \in absent THEN Number(n.cell, None) ELSE n

load_private(h, value, then) ==
    LET used  == {advice(0)}
        start == region_start(used)
        r     == load_private_region(trace, start, value)
    IN  /\ after_region([r EXCEPT !.out = handle_given(h, r.out)],
                        h, used, start, 1, then)
        /\ UNCHANGED <<prog, pass, circuit, instance, absent, opRow, tampered,
                       verdict>>

LoadA ==
    /\ pc = "load_a"
    /\ load_private("a", circuit.a, "load_b")

LoadB ==
    /\ pc = "load_b"
    /\ load_private("b", circuit.b, IF prog = "subtract" THEN "op" ELSE "load_c")

LoadC ==
    /\ pc = "load_c"
    /\ load_private("c", circuit.c, "op")

(* MuxChip::mux *)
Mux ==
    /\ pc = "op"
    /\ prog = "gadget"
    /\ LET used  == AdviceCols \cup {"s_bool", "s_mux"}
           start == region_start(used)
       IN  /\ after_region(mux_region(trace, start, num["a"], num["b"], num["c"]),
                           "d", used, start, 2, "expose")
           /\ opRow' = start
    /\ UNCHANGED <<prog, pass, circuit, instance, absent, tampered, verdict>>

(* FieldChip::mux, which is do_mux *)
DoMux ==
    /\ pc = "op"
    /\ prog = "muxmain"
    /\ LET used  == AdviceCols \cup {"s_mux"}
           start == region_start(used)
       IN  /\ after_region(do_mux_region(trace, start, num["a"], num["b"], num["c"]),
                           "d", used, start, 2, "expose")
           /\ opRow' = start
    /\ UNCHANGED <<prog, pass, circuit, instance, absent, tampered, verdict>>

(* FieldChip::subtract, which is do_subtract *)
DoSubtract ==
    /\ pc = "op"
    /\ prog = "subtract"
    /\ LET used  == {advice(0), advice(1), "s_subtract"}
           start == region_start(used)
       IN  /\ after_region(do_subtract_region(trace, start, num["a"], num["b"]),
                           "d", used, start, 2, "expose")
           /\ opRow' = start
    /\ UNCHANGED <<prog, pass, circuit, instance, absent, tampered, verdict>>

(* expose_public / constrain_public at public row 0, the last step of       *)
(* synthesize; a shape pass ends here, a witness pass goes on to verify     *)
ExposePublic ==
    /\ pc = "expose"
    /\ trace' = constrain_instance(trace, num["d"].cell, 0)
    /\ result' = "Ok"
    /\ pc' = IF pass = "witness" THEN "verify" ELSE "done"
    /\ UNCHANGED <<prog, pass, circuit, instance, columns, num, absent, opRow,
                   tampered, verdict>>

(* a dishonest prover overwrites an assigned advice cell *)
Tamper ==
    /\ pc = "verify"
    /\ tampered < MaxTamper
    /\ \E cell \in trace.assigned, v \in F :
          /\ v # CellVal(trace, cell)
          /\ trace' = [trace EXCEPT !.advice = (cell :> v) @@ @]
    /\ tampered' = tampered + 1
    /\ UNCHANGED <<prog, pass, circuit, instance, columns, num, absent, opRow, pc,
                   result, verdict>>

(* prover.verify() *)
Verify ==
    /\ pc = "verify"
    /\ verdict' = verify(trace, instance)
    /\ pc' = "done"
    /\ UNCHANGED <<prog, pass, circuit, instance, trace, columns, num, absent,
                   opRow,
                   result, tampered>>

Next ==
    \/ LoadA
    \/ LoadB
    \/ LoadC
    \/ Mux
    \/ DoMux
    \/ DoSubtract
    \/ ExposePublic
    \/ Tamper
    \/ Verify

Spec == Init /\ [][Next]_vars

-----------------------------------------------------------------------------
(* Vocabulary of the properties *)

(* synthesize is past the gadget operation, or the operation failed *)
OpActed == pc \in {"expose", "verify", "done"}

(* the three (two) handles given to the operation carry values *)
HandlesPresent ==
    /\ num["a"].value # None
    /\ num["b"].value # None
    /\ prog # "subtract" => num["c"].value # None

val(h) == num[h].value[1]

(* the cells of the gadget's region *)
RegionA == cur(trace, 0, opRow)

RegionB == cur(trace, 1, opRow)

RegionS == cur(trace, 2, opRow)

RegionOut == next(trace, 0, opRow)

Verified == pc = "done" /\ result = "Ok" /\ pass = "witness"

-----------------------------------------------------------------------------
(* C1: with a, b and the selector present and the selector 0 or 1, mux      *)
(* succeeds and the returned handle's value is a when the selector is 0     *)
(* and b when it is 1.                                                      *)
C1_MuxSelects ==
    (/\ prog = "gadget"
     /\ OpActed
     /\ HandlesPresent
     /\ val("c") \in {0, 1})
    => /\ result # "SynthesisError"
       /\ trace.err = "none"
       /\ num["d"].value # None
       /\ val("c") = 0 => val("d") = val("a")
       /\ val("c") = 1 => val("d") = val("b")

C1_Witness ==
    /\ prog = "gadget"
    /\ pc = "expose"
    /\ HandlesPresent
    /\ val("c") = 1
    /\ val("a") # val("b")
    /\ num["d"].value = Some(val("b"))

(* C2: with a and b present, do_subtract succeeds and the returned handle's *)
(* value d is a - b in the field: d + b = a, also when a < b.               *)
C2_SubtractExact ==
    (/\ prog = "subtract"
     /\ OpActed
     /\ HandlesPresent)
    => /\ result # "SynthesisError"
       /\ trace.err = "none"
       /\ num["d"].value # None
       /\ (val("d") + val("b")) % P = val("a")

C2_Witness ==
    /\ prog = "subtract"
    /\ pc = "expose"
    /\ HandlesPresent
    /\ val("a") < val("b")
    /\ num["d"].value = Some(val("a") - val("b") + P)

(* C3: a trace whose selector input cell holds a value outside {0,1} is     *)
(* rejected whatever the output cell holds; unless the selector's copy      *)
(* constraint is what fails, the bool gate is non-zero at the region's      *)
(* row 0.                                                                   *)
C3_NonBooleanRejected ==
    (/\ prog = "gadget"
     /\ Verified
     /\ CellVal(trace, num["c"].cell) \notin {0, 1})
    => /\ verdict = "reject"
       /\ <<"s_bool", opRow>> \in trace.selectors
       /\ RegionS = CellVal(trace, num["c"].cell) => gate_bool(trace, opRow) # 0

C3_Witness ==
    /\ prog = "gadget"
    /\ Verified
    /\ HandlesPresent
    /\ val("c") = 2
    /\ RegionS = 2
    /\ RegionOut # val("d")
    /\ verdict = "reject"

(* C4: for a selector of 0 or 1 the witness mux assigns (a, b, selector at  *)
(* row 0, the output at row 1 of advice[0]) makes the bool gate and the mux *)
(* gate zero at the row where their selectors are enabled.                  *)
C4_HonestWitnessSatisfiesGates ==
    (/\ prog = "gadget"
     /\ pass = "witness"
     /\ OpActed
     /\ HandlesPresent
     /\ tampered = 0
     /\ val("c") \in {0, 1})
    => /\ <<"s_bool", opRow>> \in trace.selectors
       /\ <<"s_mux", opRow>> \in trace.selectors
       /\ RegionA = val("a") /\ RegionB = val("b") /\ RegionS = val("c")
       /\ RegionOut = val("d")
       /\ gate_bool(trace, opRow) = 0
       /\ gate_mux(trace, opRow) = 0

C4_Witness ==
    /\ prog = "gadget"
    /\ pass = "witness"
    /\ pc = "verify"
    /\ tampered = 0
    /\ HandlesPresent
    /\ val("c") = 1
    /\ val("a") # val("b")
    /\ val("a") # 0
    /\ gate_mux(trace, opRow) = 0

(* C5: at every row where s_bool and s_mux are enabled, whatever the cells  *)
(* hold, if both gates are zero then the selector cell is 0 or 1 and the    *)
(* output cell equals a's cell when it is 0 and b's cell when it is 1.      *)
C5_GatesSound ==
    (prog = "gadget" /\ pc \in {"verify", "done"})
    => \A r \in Rows :
          (/\ <<"s_bool", r>> \in trace.selectors
           /\ <<"s_mux", r>> \in trace.selectors
           /\ gate_bool(trace, r) = 0
           /\ gate_mux(trace, r) = 0)
          => /\ cur(trace, 2, r) \in {0, 1}
             /\ cur(trace, 2, r) = 0 => next(trace, 0, r) = cur(trace, 0, r)
             /\ cur(trace, 2, r) = 1 => next(trace, 0, r) = cur(trace, 1, r)

C5_Witness ==
    /\ prog = "gadget"
    /\ pc = "done"
    /\ tampered = 1
    /\ HandlesPresent
    /\ val("c") \notin {0, 1}
    /\ RegionS = 1
    /\ <<"s_bool", opRow>> \in trace.selectors
    /\ <<"s_mux", opRow>> \in trace.selectors
    /\ gate_bool(trace, opRow) = 0
    /\ gate_mux(trace, opRow) = 0

(* C6: at every row where s_subtract is enabled the subtract gate is zero   *)
(* exactly when out = lhs - rhs (out + rhs = lhs); the witness do_subtract  *)
(* assigns satisfies it, and a trace where it is non-zero is rejected.      *)
C6_SubtractGateExact ==
    (prog = "subtract" /\ pass = "witness" /\ OpActed /\ HandlesPresent)
    => /\ <<"s_subtract", opRow>> \in trace.selectors
       /\ \A r \in Rows :
             <<"s_subtract", r>> \in trace.selectors
             => /\ gate_subtract(trace, r) = 0
                   <=> (next(trace, 0, r) + cur(trace, 1, r)) % P = cur(trace, 0, r)
                /\ tampered = 0 => gate_subtract(trace, r) = 0
                /\ (pc = "done" /\ gate_subtract(trace, r) # 0)
                   => verdict = "reject"

C6_Witness ==
    /\ prog = "subtract"
    /\ Verified
    /\ HandlesPresent
    /\ tampered = 1
    /\ RegionOut # val("d")
    /\ RegionA = val("a") /\ RegionB = val("b")
    /\ gate_subtract(trace, opRow) # 0
    /\ verdict = "reject"

(* C7: the subtract circuit with the witness synthesis assigned verifies    *)
(* when the public input is a - b and is rejected when it is anything else  *)
(* (a - b + 1 included); whatever the cells hold, an accepted public input  *)
(* is the difference of the two loaded cells.                               *)
C7_SubtractEndToEnd ==
    (prog = "subtract" /\ Verified)
    => /\ tampered = 0
          => (verdict = "accept"
              <=> (instance[1] + circuit.b[1]) % P = circuit.a[1])
       /\ verdict = "accept"
          => (instance[1] + CellVal(trace, num["b"].cell)) % P
                = CellVal(trace, num["a"].cell)

C7_Witness ==
    /\ prog = "subtract"
    /\ Verified
    /\ tampered = 0
    /\ circuit.a[1] < circuit.b[1]
    /\ instance[1] = (circuit.a[1] - circuit.b[1] + 1 + P) % P
    /\ verdict = "reject"

(* C8: with the selector 0 or 1 and the witness mux assigned, exposing the  *)
(* returned handle at public row 0 makes verification accept if and only    *)
(* if the public input at index 0 is the mux result.                        *)
C8_PublicInputBinding ==
    (/\ prog = "gadget"
     /\ Verified
     /\ tampered = 0
     /\ circuit.c \in {Some(0), Some(1)})
    => /\ <<num["d"].cell, 0>> \in trace.public
       /\ verdict = "accept"
          <=> instance[1] = (IF circuit.c = Some(0) THEN circuit.a[1]
                                                    ELSE circuit.b[1])

C8_Witness ==
    /\ prog = "gadget"
    /\ Verified
    /\ tampered = 0
    /\ circuit = [a |-> Some(3), b |-> Some(2), c |-> Some(0)]
    /\ instance = <<2>>
    /\ verdict = "reject"

(* C9: the top-level mux example, instantiated as main does (the circuit's  *)
(* third input is b), verifies with the public input (b - a) * c and is     *)
(* rejected with (b - a) * c + 1, for every c main may draw.                *)
C9_MainMuxVerifies ==
    (/\ prog = "muxmain"
     /\ Verified
     /\ tampered = 0
     /\ circuit.c = circuit.b)
    => \A c \in F :
          /\ instance[1] = Fmul(Fsub(circuit.b[1], circuit.a[1]), c)
             => verdict = "accept"
          /\ instance[1] = Fadd(Fmul(Fsub(circuit.b[1], circuit.a[1]), c), 1)
             => verdict = "reject"

(* C10: FieldChip::mux(a, b, c) returns a handle whose value is             *)
(* (b - a) * c + a.                                                         *)
C10_MainMuxValue ==
    (/\ prog = "muxmain"
     /\ OpActed
     /\ HandlesPresent)
    => /\ result # "SynthesisError"
       /\ num["d"].value
            = Some(Fadd(Fmul(Fsub(val("b"), val("a")), val("c")), val("a")))

-----------------------------------------------------------------------------
(* C11: in the mux gadget and the subtract circuit each input cell is       *)
(* copy-constrained to its row-0 copy in the region; a trace where an input *)
(* cell and its copy hold different values is rejected, and an accepted     *)
(* trace has one value across every pair of copy-constrained cells and in   *)
(* the output cell and the public input.                                    *)
InputCopies ==
    {<<num["a"].cell, Cell(advice(0), opRow)>>,
     <<num["b"].cell, Cell(advice(1), opRow)>>}
    \cup (IF prog = "subtract" THEN {}
          ELSE {<<num["c"].cell, Cell(advice(2), opRow)>>})

C11_CopyConstraintIntegrity ==
    (prog \in {"gadget", "subtract"} /\ Verified)
    => /\ (\E pair \in InputCopies :
              CellVal(trace, pair[1]) # CellVal(trace, pair[2]))
          => verdict = "reject"
       /\ verdict = "accept"
          => /\ \A pair \in trace.copies \cup InputCopies :
                   CellVal(trace, pair[1]) = CellVal(trace, pair[2])
             /\ CellVal(trace, num["d"].cell) = instance[1]

C11_Witness ==
    /\ prog = "gadget"
    /\ Verified
    /\ tampered = 1
    /\ CellVal(trace, num["a"].cell) # val("a")
    /\ RegionA = val("a")
    /\ RegionB = val("b") /\ RegionS = val("c") /\ RegionOut = val("d")
    /\ val("c") = 1
    /\ instance[1] = val("d")
    /\ verdict = "reject"

-----------------------------------------------------------------------------
(* C12: in a witness pass, when mux is called with a, b or the selector     *)
(* absent, it returns SynthesisError, which synthesize returns; no handle   *)
(* is returned, the output cell and the copy of an absent input are never   *)
(* assigned, and every cell that was assigned holds its input's own value.  *)
MuxCalledWithAbsent ==
    /\ prog = "gadget"
    /\ pass = "witness"
    /\ OpActed
    /\ num["c"].cell # NoCell
    /\ ~HandlesPresent

RegionInput(i) == num[CASE i = 0 -> "a" [] i = 1 -> "b" [] i = 2 -> "c"]

C12_AbsentValueIsAnError ==
    MuxCalledWithAbsent
    => /\ result = "SynthesisError"
       /\ trace.err = "SynthesisError"
       /\ pc = "done"
       /\ verdict = "none"
       /\ num["d"] = NoNumber
       /\ trace.public = {}
       /\ Cell(advice(0), opRow + 1) \notin trace.assigned
       /\ DOMAIN trace.advice = trace.assigned
       /\ \A i \in 0 .. 2 :
             IF Cell(advice(i), opRow) \in trace.assigned
             THEN /\ RegionInput(i).value # None
                  /\ cur(trace, i, opRow) = RegionInput(i).value[1]
             ELSE cur(trace, i, opRow) = 0
       /\ \A h \in {"a", "b", "c"} :
             CellVal(trace, num[h].cell) = circuit[h][1]

C12_Witness ==
    /\ MuxCalledWithAbsent
    /\ absent = {"b"}
    /\ val("a") = 3
    /\ RegionA = 3
    /\ Cell(advice(0), opRow) \in trace.assigned
    /\ Cell(advice(1), opRow) \notin trace.assigned
    /\ result = "SynthesisError"

-----------------------------------------------------------------------------
(* C13: with a, b and a selector outside {0,1} present, mux returns Ok: the *)
(* four cells of the region are assigned, the output cell and the returned  *)
(* handle hold b, the copies and selectors are in place; the run is         *)
(* rejected only by verify.                                                 *)
MuxCalledWithNonBoolean ==
    /\ prog = "gadget"
    /\ pass = "witness"
    /\ OpActed
    /\ HandlesPresent
    /\ val("c") \notin {0, 1}

C13_NonBooleanIsNoEarlyError ==
    MuxCalledWithNonBoolean
    => /\ result # "SynthesisError"
       /\ trace.err = "none"
       /\ num["d"] = Number(Cell(advice(0), opRow + 1), Some(val("b")))
       /\ {Cell(advice(0), opRow), Cell(advice(1), opRow),
           Cell(advice(2), opRow), Cell(advice(0), opRow + 1)}
             \subseteq trace.assigned
       /\ InputCopies \subseteq trace.copies
       /\ {<<"s_bool", opRow>>, <<"s_mux", opRow>>} \subseteq trace.selectors
       /\ tampered = 0 => RegionOut = val("b") /\ RegionS = val("c")
       /\ pc = "verify" => verdict = "none"
       /\ pc = "done" => result = "Ok"
       /\ tampered = 0 => gate_bool(trace, opRow) # 0
       /\ (pc = "done" /\ tampered = 0) => verdict = "reject"

C13_Witness ==
    /\ MuxCalledWithNonBoolean
    /\ pc = "verify"
    /\ tampered = 0
    /\ val("c") = 2
    /\ val("a") # val("b")
    /\ num["d"].value = Some(val("b"))
    /\ RegionOut = val("b")
    /\ gate_bool(trace, opRow) # 0

-----------------------------------------------------------------------------
(* C14: a successful mux call adds one region of 2 rows below everything    *)
(* assigned so far: the copies of a, b, selector at its row 0 in advice[0], *)
(* advice[1], advice[2], the output at its row 1 in advice[0], exactly the  *)
(* 3 copy constraints from the input cells to the copies, and exactly the   *)
(* 2 selector activations s_bool and s_mux at its row 0; every cell,        *)
(* constraint and selector the trace had is left as it was.                 *)
MuxSucceeds == pc = "op" /\ prog = "gadget" /\ pc' = "expose"

C14_MuxFrame ==
    [][MuxSucceeds =>
        LET start == opRow'
            row0  == {Cell(advice(i), start) : i \in 0 .. 2}
            out   == Cell(advice(0), start + 1)
        IN  /\ \A cell \in trace.assigned : cell.row < start
            /\ trace.assigned \subseteq trace'.assigned
            /\ trace'.assigned \ trace.assigned = row0 \cup {out}
            /\ \A cell \in trace.assigned :
                  CellVal(trace', cell) = CellVal(trace, cell)
            /\ CellVal(trace', Cell(advice(0), start)) = val("a")
            /\ CellVal(trace', Cell(advice(1), start)) = val("b")
            /\ CellVal(trace', Cell(advice(2), start)) = val("c")
            /\ CellVal(trace', out) = num'["d"].value[1]
            /\ num'["d"].cell = out
            /\ trace.copies \subseteq trace'.copies
            /\ trace'.copies \ trace.copies
                 = {<<num["a"].cell, Cell(advice(0), start)>>,
                    <<num["b"].cell, Cell(advice(1), start)>>,
                    <<num["c"].cell, Cell(advice(2), start)>>}
            /\ Cardinality(trace'.copies \ trace.copies) = 3
            /\ trace.selectors \subseteq trace'.selectors
            /\ trace'.selectors \ trace.selectors
                 = {<<"s_bool", start>>, <<"s_mux", start>>}
            /\ trace'.public = trace.public
            /\ \A c \in AllColumns :
                  columns'[c] = IF c \in AdviceCols \cup {"s_bool", "s_mux"}
                                THEN start + 2 ELSE columns[c]
    ]_vars

C14_Witness ==
    /\ prog = "gadget"
    /\ pc = "expose"
    /\ opRow = 3
    /\ Cardinality(trace.assigned) = 7
    /\ Cardinality(trace.copies) = 3
    /\ trace.selectors = {<<"s_bool", 3>>, <<"s_mux", 3>>}
    /\ num["d"].cell = Cell(advice(0), 4)

-----------------------------------------------------------------------------
(* C15: synthesize runs load a, load b, (load c), the gadget operation,     *)
(* expose, in this order.  A step that fails ends synthesize with its       *)
(* error and no later step runs; the public-input constraint exists only    *)
(* once every region before it succeeded, and synthesize returns Ok only    *)
(* then.                                                                    *)
Bound(h) == num[h] # NoNumber

C15_State ==
    /\ Bound("b") => Bound("a")
    /\ Bound("c") => Bound("b") /\ prog # "subtract"
    /\ Bound("d") => Bound("b") /\ (prog # "subtract" => Bound("c"))
    /\ pc = "load_a" => ~Bound("a")
    /\ pc = "load_b" => Bound("a") /\ ~Bound("b")
    /\ pc = "load_c" => Bound("b") /\ ~Bound("c")
    /\ pc = "op" => Bound("b") /\ (prog # "subtract" => Bound("c")) /\ ~Bound("d")
    /\ pc = "expose" => Bound("d") /\ trace.public = {} /\ result = "none"
    /\ trace.public # {}
       => /\ trace.public = {<<num["d"].cell, 0>>}
          /\ Bound("d")
          /\ trace.err = "none"
          /\ InputCopies \subseteq trace.copies
          /\ num["d"].cell \in trace.assigned
    /\ result = "Ok" <=> trace.public # {}
    /\ result = "SynthesisError" <=> trace.err = "SynthesisError"
    /\ trace.err # "none"
       => /\ pc = "done"
          /\ verdict = "none"
          /\ ~Bound("d")
          /\ trace.public = {}
    /\ pc \in {"verify", "done"} => result # "none"

C15_Step ==
    /\ trace.err = "none"
    /\ pc = "load_a" => pc' \in {"load_b", "done"}
    /\ pc = "load_b"
       => pc' \in {IF prog = "subtract" THEN "op" ELSE "load_c", "done"}
    /\ pc = "load_c" => pc' \in {"op", "done"}
    /\ pc = "op" => pc' \in {"expose", "done"}
    /\ pc = "expose" => pc' \in {"verify", "done"} /\ result' = "Ok"
    /\ (pc \in {"load_a", "load_b", "load_c", "op"} /\ pc' = "done")
       => result' = "SynthesisError" /\ num' = num
    /\ trace'.public # trace.public => pc = "expose"

C15_SequentialAllOrNothing == []C15_State /\ [][C15_Step]_vars

C15_Witness ==
    /\ prog = "gadget"
    /\ pass = "witness"
    /\ absent = {"c"}
    /\ pc = "done"
    /\ result = "SynthesisError"
    /\ Bound("a") /\ Bound("b") /\ Bound("c") /\ ~Bound("d")
    /\ trace.public = {}
    /\ Cell(advice(1), opRow) \in trace.assigned

-----------------------------------------------------------------------------
(* C16: in mux, do_mux and do_subtract every fresh row-0 cell is assigned   *)
(* the value of the input handle it is then copy-constrained to, so the     *)
(* witness the operation assigns satisfies every copy constraint it adds.   *)
C16_CopiesHoldInputValues ==
    (/\ pass = "witness"
     /\ pc \in {"expose", "verify"}
     /\ tampered = 0
     /\ HandlesPresent)
    => /\ InputCopies \subseteq trace.copies
       /\ \A pair \in InputCopies :
             CellVal(trace, pair[2]) = CellVal(trace, pair[1])
       /\ RegionA = val("a")
       /\ RegionB = val("b")
       /\ prog # "subtract" => RegionS = val("c")
       /\ copies_hold(trace)

(* C17: in a shape pass, where every input value is absent and no value     *)
(* closure is evaluated, mux and do_subtract complete without error and     *)
(* return a handle for the output cell, row 1 of advice[0] in the region.   *)
C17_ShapePassSucceeds ==
    (/\ pass = "shape"
     /\ prog \in {"gadget", "subtract"}
     /\ OpActed)
    => /\ result # "SynthesisError"
       /\ trace.err = "none"
       /\ num["d"].cell = Cell(advice(0), opRow + 1)
       /\ trace.advice = EmptyTrace.advice

====
